---- MODULE Spec2Model ----
(***************************************************************************)
(* Model of the log pattern analyzer of apps/web/ai-analysis/analyze_logs.py *)
(* (class LogPatternAnalyzer and the command-line entry point main()) and   *)
(* of the audio processor analyzer of atlas/atlas_analyzer.py (class        *)
(* AtlasAudioAnalyzer and its main()).                                      *)
(*                                                                         *)
(* JSON values are modelled as follows.  A string-valued field holds a     *)
(* TLA+ string; the three strings ABSENT, NULL and NUMBER stand for a key  *)
(* that is missing, for JSON null and for a JSON number found where a      *)
(* string is expected.  A message is a sequence of words; a duration and a *)
(* timestamp are small records.  Floating point values are kept exact:     *)
(* confidence is in hundredths, percentages and hours in tenths, a         *)
(* duration in tenths of a millisecond.                                    *)
(***************************************************************************)
EXTENDS Integers, Sequences, FiniteSets, TLC

VARIABLES
    error_patterns,     \* self.error_patterns of the long-lived analyzer
    severity_keywords,  \* self.severity_keywords of the long-lived analyzer
    pc,                 \* where the current invocation stands
    stdin,              \* what main() reads from standard input
    logs_data,          \* the argument of the current analyze_logs call
    evaluated,          \* the facet computations the call has entered
    result,             \* the value the call returned
    raised,             \* the exception the call propagated to its caller
    caught_in,          \* the except clause that built the fallback result
    stdout,             \* what main() printed
    data,               \* the argument of the current analyze_atlas_data call
    analysis_result     \* the value analyze_atlas_data returned

vars == <<error_patterns, severity_keywords, pc, stdin, logs_data,
          evaluated, result, raised, caught_in, stdout, data, analysis_result>>

----------------------------------------------------------------------------
(* JSON values *)

ABSENT == "<absent>"
NULL == "<null>"
NUMBER == "<number>"

IsStr(v) == v \notin {ABSENT, NULL, NUMBER}

\* dict.get(key, default) for a string-valued key
Get(v, default) == IF v = ABSENT THEN default ELSE v

\* the type name Python prints for a value that is not a string
TypeName(v) == IF v = NULL THEN "NoneType" ELSE "int"

NoDuration == [k |-> "absent", n |-> 0]
NullDuration == [k |-> "null", n |-> 0]
TextDuration == [k |-> "str", n |-> 0]
\* a duration of so many tenths of a millisecond
Tenths(n) == [k |-> "num", n |-> n]
Millis(n) == Tenths(10 * n)

NoTimestamp == [k |-> "absent", t |-> 0]
NullTimestamp == [k |-> "null", t |-> 0]
NumberTimestamp == [k |-> "number", t |-> 0]
GarbageTimestamp == [k |-> "garbage", t |-> 0]
\* "2024-01-01T10:00:00", t seconds after midnight of the first day
Naive(t) == [k |-> "naive", t |-> t]
\* the same instant written with a trailing Z
Zulu(t) == [k |-> "zulu", t |-> t]

\* an element of the logs list that is a mapping
Log(level, category, message, success, duration, deviceType, timestamp, action) ==
    [kind |-> "dict", level |-> level, category |-> category,
     message |-> message, success |-> success, duration |-> duration,
     deviceType |-> deviceType, timestamp |-> timestamp, action |-> action]

\* an element of the logs list that is not a mapping: None, an int, a str
NonMapping(kind) ==
    [kind |-> kind, level |-> ABSENT, category |-> ABSENT,
     message |-> <<ABSENT>>, success |-> ABSENT, duration |-> NoDuration,
     deviceType |-> ABSENT, timestamp |-> NoTimestamp, action |-> ABSENT]

\* a message is a sequence of words; <<ABSENT>>, <<NULL>>, <<NUMBER>> are the
\* missing key, null and a number
IsText(m) == m \notin {<<ABSENT>>, <<NULL>>, <<NUMBER>>}
GetMessage(m) == IF m = <<ABSENT>> THEN <<>> ELSE m

\* str.lower() on the words the model uses
lower(s) ==
    CASE s = "ERROR" -> "error"
      [] s = "CRITICAL" -> "critical"
      [] s = "Critical" -> "critical"
      [] s = "TIMEOUT" -> "timeout"
      [] OTHER -> s

----------------------------------------------------------------------------
(* Exceptions and outcomes of a computation *)

NoExc == [type |-> "", text |-> ""]
Exc(type, text) == [type |-> type, text |-> text]
Ok(v) == [ok |-> TRUE, val |-> v, exc |-> NoExc]
Raise(e) == [ok |-> FALSE, val |-> <<>>, exc |-> e]

NoAttribute(typeName, attr) ==
    Exc("AttributeError",
        "'" \o typeName \o "' object has no attribute '" \o attr \o "'")
NotIterable(typeName) ==
    Exc("TypeError", "'" \o typeName \o "' object is not iterable")
NotSubscriptable(typeName) ==
    Exc("TypeError", "'" \o typeName \o "' object is not subscriptable")
ExpectedString(typeName) ==
    Exc("TypeError",
        "expected string or bytes-like object, got '" \o typeName \o "'")
CantConvert == Exc("TypeError", "can't convert type 'str' to numerator/denominator")
CantCompare ==
    Exc("TypeError", "can't compare offset-naive and offset-aware datetimes")
JSONDecodeError == Exc("JSONDecodeError", "Expecting value: line 1 column 1 (char 0)")

\* the classes "except Exception" catches: every exception the analysis can raise
ExceptionClasses == {"AttributeError", "TypeError", "ValueError", "JSONDecodeError",
                     "StatisticsError", "KeyError", "IndexError"}

----------------------------------------------------------------------------
(* collections.Counter: an insertion-ordered tally *)

Min(S) == CHOOSE x \in S : \A y \in S : x <= y
Max(S) == CHOOSE x \in S : \A y \in S : y <= x

RECURSIVE SumSeq(_)
SumSeq(s) == IF s = <<>> THEN 0 ELSE Head(s) + SumSeq(Tail(s))

\* [f(s[i]) : i in order]
MapSeq(s, f(_)) == [i \in 1..Len(s) |-> f(s[i])]

Occurrences(x, s) == Cardinality({i \in 1..Len(s) : s[i] = x})

\* the keys in first-seen order with their counts
RECURSIVE CounterFrom(_, _)
CounterFrom(s, i) ==
    IF i > Len(s) THEN <<>>
    ELSE IF \E j \in 1..(i - 1) : s[j] = s[i] THEN CounterFrom(s, i + 1)
    ELSE <<[key |-> s[i], n |-> Occurrences(s[i], s)]>> \o CounterFrom(s, i + 1)

Counter(s) == CounterFrom(s, 1)

\* the index of the first entry with the largest count
FirstMax(counter) ==
    CHOOSE i \in 1..Len(counter) :
        /\ \A j \in 1..Len(counter) : counter[j].n <= counter[i].n
        /\ \A j \in 1..(i - 1) : counter[j].n < counter[i].n

Without(s, i) == SubSeq(s, 1, i - 1) \o SubSeq(s, i + 1, Len(s))

\* Counter.most_common(n): by count descending, equal counts in first-seen order
RECURSIVE most_common(_, _)
most_common(counter, n) ==
    IF n = 0 \/ counter = <<>> THEN <<>>
    ELSE LET i == FirstMax(counter)
         IN <<counter[i]>> \o most_common(Without(counter, i), n - 1)

\* s[:n]
Prefix(s, n) == SubSeq(s, 1, IF Len(s) < n THEN Len(s) ELSE n)

\* the elements of s at the indices in I, in order
RECURSIVE Pick(_, _, _)
Pick(s, I, i) ==
    IF i > Len(s) THEN <<>>
    ELSE (IF i \in I THEN <<s[i]>> ELSE <<>>) \o Pick(s, I, i + 1)

Where(s, keep(_)) == Pick(s, {i \in 1..Len(s) : keep(s[i])}, 1)

\* the positive integers up to n, in order
Indices(n) == [i \in 1..n |-> i]

\* a line of output: a fixed text, the name it mentions, the number it mentions
Line(text, name, n) == [text |-> text, name |-> name, n |-> n]

\* num/den rounded to the nearest integer, halves to the even neighbour,
\* as the format ".1f" does on the tenths
RoundHalfEven(num, den) ==
    IF 2 * (num % den) > den \/ (2 * (num % den) = den /\ (num \div den) % 2 = 1)
    THEN (num \div den) + 1
    ELSE num \div den

----------------------------------------------------------------------------
(* LogPatternAnalyzer.__init__: the two tables of an analyzer *)

\* a regular expression a|b.*c|... is the set of its alternatives, each
\* alternative the words it looks for in order
init_error_patterns ==
    << [name |-> "network_timeout",
        regex |-> {<<"timeout">>, <<"connection", "refused">>, <<"network", "error">>}],
       [name |-> "device_failure",
        regex |-> {<<"device", "not", "found">>, <<"hardware", "failure">>,
                   <<"connection", "lost">>}],
       [name |-> "authentication",
        regex |-> {<<"auth", "failed">>, <<"unauthorized">>, <<"invalid", "credentials">>}],
       [name |-> "performance",
        regex |-> {<<"slow", "response">>, <<"high", "latency">>, <<"timeout">>}],
       [name |-> "configuration",
        regex |-> {<<"config", "error">>, <<"setting", "invalid">>,
                   <<"parameter", "missing">>}] >>

init_severity_keywords ==
    [critical |-> <<"critical", "fatal", "emergency", "system failure", "crash">>,
     high |-> <<"error", "exception", "failed", "unable", "denied">>,
     medium |-> <<"warning", "deprecated", "retry", "fallback">>,
     low |-> <<"info", "debug", "trace", "notice">>]

LogPatternAnalyzer ==
    [error_patterns |-> init_error_patterns, severity_keywords |-> init_severity_keywords]

----------------------------------------------------------------------------
(* The value of logs_data.get('logs', []) *)

\* kind: "absent", "null", "zero", "list", "number", "str", "dict"; items: the
\* elements of a list, the characters of a string, the keys of a mapping
Logs(kind, items) == [kind |-> kind, items |-> items]

\* `not logs`
Falsy(logs) ==
    logs.kind \in {"absent", "null", "zero"} \/ (logs.kind # "number" /\ logs.items = <<>>)

\* log.get('level') in ['error', 'critical']
IsErrorLog(log) == log.level \in {"error", "critical"}
IsUserInteraction(log) == log.category = "user_interaction"
IsHardware(log) == log.category = "hardware"
IsSecurity(log) == log.category = "security"
\* the truth value of log.get('deviceType')
HasDevice(log) == log.deviceType \notin {ABSENT, NULL, ""}
DeviceOf(log) == log.deviceType
\* log.get('duration') is not None
HasDuration(log) == log.duration.k \notin {"absent", "null"}
DurationOf(log) == log.duration.n
MessageOf(log) == GetMessage(log.message)

error_logs_of(logs) == Where(logs.items, IsErrorLog)
perf_logs_of(logs) == Where(logs.items, HasDuration)

\* statistics.mean raises on a value that is not a number
MeanRaises(perf_logs) == \E i \in 1..Len(perf_logs) : perf_logs[i].duration.k = "str"

----------------------------------------------------------------------------
(* _calculate_overall_severity *)

KindTypeName(kind) ==
    CASE kind = "null" -> "NoneType"
      [] kind = "number" -> "int"
      [] kind = "str" -> "str"
      [] OTHER -> "list"

\* the first log the loop cannot handle raises
severity_loop_raise(log) ==
    IF log.kind # "dict"
    THEN Raise(NoAttribute(KindTypeName(log.kind), "get"))
    ELSE Raise(NoAttribute(TypeName(log.level), "lower"))

\* severity_counts['error'] + severity_counts['critical']
lowered_error_count(items) ==
    Cardinality({i \in 1..Len(items) :
                    lower(Get(items[i].level, "")) \in {"error", "critical"}})

severity_of_rate(errors, total_logs) ==
    IF total_logs = 0 THEN "low"
    ELSE IF 100 * errors > 20 * total_logs THEN "critical"
    ELSE IF 100 * errors > 10 * total_logs THEN "high"
    ELSE IF 100 * errors > 5 * total_logs THEN "medium"
    ELSE "low"

severity_loop(items, bad) ==
    IF bad # {} THEN severity_loop_raise(items[Min(bad)])
    ELSE Ok(severity_of_rate(lowered_error_count(items), Len(items)))

calculate_overall_severity(logs) ==
    IF logs.kind = "number" THEN Raise(NotIterable("int"))
    ELSE severity_loop(logs.items,
                       {i \in 1..Len(logs.items) :
                           logs.items[i].kind # "dict"
                           \/ ~IsStr(Get(logs.items[i].level, ""))})

----------------------------------------------------------------------------
(* _generate_summary *)

Summary(kind, total, errors, users, devices, top, error_text) ==
    [kind |-> kind, total |-> total, errors |-> errors, users |-> users,
     devices |-> devices, top |-> top, error_text |-> error_text]

\* Counter(messages of the error logs).most_common(1)[0][0]
most_frequent_error(error_logs) ==
    most_common(Counter(MapSeq(error_logs, MessageOf)), 1)[1].key

summary_parts(total, errors, users, devices, message) ==
    IF errors = 0 THEN Ok(Summary("counts", total, 0, users, devices, <<>>, ""))
    ELSE IF ~IsText(message) THEN Raise(NotSubscriptable(TypeName(message[1])))
    ELSE Ok(Summary("counts", total, errors, users, devices, <<Prefix(message, 50)>>, ""))

generate_summary(logs) ==
    summary_parts(Len(logs.items),
                  Len(error_logs_of(logs)),
                  Len(Where(logs.items, IsUserInteraction)),
                  Len(Where(logs.items, IsHardware)),
                  most_frequent_error(error_logs_of(logs)))

----------------------------------------------------------------------------
(* Timestamps *)

\* str.replace('Z', '+00:00')
replace_Z(ts) == IF ts.k = "zulu" THEN [k |-> "offset", t |-> ts.t] ELSE ts

\* datetime.fromisoformat: a datetime, aware when the text carries an offset
fromisoformat(ts) ==
    CASE ts.k = "naive" -> Ok([t |-> ts.t, aware |-> FALSE])
      [] ts.k = "offset" -> Ok([t |-> ts.t, aware |-> TRUE])
      [] OTHER -> Raise(Exc("ValueError", "Invalid isoformat string"))

\* try: timestamp = datetime.fromisoformat(
\*          log.get('timestamp', '').replace('Z', '+00:00'))
\* except: continue
\* .replace on None or on a number raises AttributeError, inside the try
parse_timestamp(log) ==
    IF log.timestamp.k \in {"null", "number"}
    THEN Raise(NoAttribute(KindTypeName(log.timestamp.k), "replace"))
    ELSE fromisoformat(replace_Z(log.timestamp))

Parses(log) == parse_timestamp(log).ok
TimestampOf(log) == parse_timestamp(log).val

\* the datetimes of the logs the guarded parse does not skip
timestamps_of(logs_list) == MapSeq(Where(logs_list, Parses), TimestampOf)

hour(dt) == (dt.t \div 3600) % 24
Instant(dt) == dt.t
Earlier(a, b) == a < b

\* list.sort() of datetimes: the instants ascending, or TypeError when the list
\* mixes aware and naive ones
sort_datetimes(dts) ==
    IF \E i, j \in 1..Len(dts) : dts[i].aware # dts[j].aware THEN Raise(CantCompare)
    ELSE Ok(SortSeq(MapSeq(dts, Instant), Earlier))

----------------------------------------------------------------------------
(* _identify_patterns *)

RECURSIVE FindsInOrder(_, _)
FindsInOrder(words, text) ==
    IF words = <<>> THEN TRUE
    ELSE IF text = <<>> THEN FALSE
    ELSE IF lower(Head(text)) = Head(words) THEN FindsInOrder(Tail(words), Tail(text))
    ELSE FindsInOrder(words, Tail(text))

\* re.search(regex, msg, re.IGNORECASE)
re_search(regex, msg) == \E alt \in regex : FindsInOrder(alt, msg)

\* any(...) over the messages in order: True at the first match, TypeError at
\* a message that is no string met before any match
any_outcome(error_messages, bad, hits) ==
    IF hits # {} /\ \A b \in bad : Min(hits) < b THEN Ok(TRUE)
    ELSE IF bad # {} THEN Raise(ExpectedString(TypeName(error_messages[Min(bad)][1])))
    ELSE Ok(FALSE)

\* any(re.search(regex, msg, re.IGNORECASE) for msg in error_messages)
any_search(regex, error_messages) ==
    any_outcome(error_messages,
                {i \in 1..Len(error_messages) : ~IsText(error_messages[i])},
                {i \in 1..Len(error_messages) :
                    IsText(error_messages[i]) /\ re_search(regex, error_messages[i])})

\* pattern_name.replace('_', ' ')
replace_underscore(name) ==
    CASE name = "network_timeout" -> "network timeout"
      [] name = "device_failure" -> "device failure"
      [] OTHER -> name

\* the loop over self.error_patterns.items(), given what any(...) gives for
\* each entry: the lines of the entries found, or the first exception
category_lines(table, searches) ==
    IF \E i \in 1..Len(table) : ~searches[i].ok
    THEN searches[Min({i \in 1..Len(table) : ~searches[i].ok})]
    ELSE Ok([k \in 1..Cardinality({i \in 1..Len(table) : searches[i].val}) |->
              Line("Detected pattern",
                   replace_underscore(
                       table[CHOOSE i \in 1..Len(table) :
                                /\ searches[i].val
                                /\ Cardinality({j \in 1..i : searches[j].val}) = k].name),
                   0)])

error_category_patterns(table, error_messages) ==
    category_lines(table, [i \in 1..Len(table) |-> any_search(table[i].regex, error_messages)])

\* max(hour_distribution, key=hour_distribution.get) of the dict filled in
\* the order of the logs
peak_hour_pattern(hour_distribution) ==
    IF hour_distribution = <<>> THEN <<>>
    ELSE <<Line("Peak activity at hour", "",
                hour_distribution[FirstMax(hour_distribution)].key)>>

device_pattern(most_active) ==
    IF most_active = <<>> THEN <<>>
    ELSE <<Line("Most active device type", most_active[1].key, most_active[1].n)>>

patterns_list(peak, categories, device) ==
    IF ~categories.ok THEN categories ELSE Ok(peak \o categories.val \o device)

\* the patterns before the cut to five
all_patterns(self, logs) ==
    patterns_list(
        peak_hour_pattern(Counter(MapSeq(timestamps_of(logs.items), hour))),
        error_category_patterns(self.error_patterns, MapSeq(error_logs_of(logs), MessageOf)),
        device_pattern(most_common(Counter(MapSeq(Where(logs.items, HasDevice), DeviceOf)), 1)))

\* the list returned whole
not_cut(lines) == lines

\* patterns[:5]
cut_to_five(lines) == IF ~lines.ok THEN lines ELSE Ok(Prefix(lines.val, 5))

identify_patterns(self, logs) == cut_to_five(all_patterns(self, logs))

----------------------------------------------------------------------------
(* _generate_recommendations *)

CheckDevice(entry) == Line("Check device - errors detected", entry.key, entry.n)

device_recommendations(error_logs) ==
    MapSeq(most_common(Counter(MapSeq(Where(error_logs, HasDevice), DeviceOf)), 2),
           CheckDevice)

recommendations_list(total, errors, perf_logs, devices, security) ==
    IF perf_logs # <<>> /\ MeanRaises(perf_logs) THEN Raise(CantConvert)
    ELSE Ok(
        (IF total # 0 /\ 100 * errors > 10 * total
         THEN <<Line("High error rate detected - investigate system stability", "", 0)>>
         ELSE <<>>)
     \o (IF perf_logs # <<>>
            /\ SumSeq(MapSeq(perf_logs, DurationOf)) > 50000 * Len(perf_logs)
         THEN <<Line("Average response time is high - optimize slow operations", "", 0)>>
         ELSE <<>>)
     \o devices
     \o (IF security # 0
         THEN <<Line("Security events detected - review access logs", "", 0)>>
         ELSE <<>>))

\* the recommendations before the cut to five
all_recommendations(logs) ==
    recommendations_list(Len(logs.items),
                         Len(error_logs_of(logs)),
                         perf_logs_of(logs),
                         device_recommendations(error_logs_of(logs)),
                         Len(Where(logs.items, IsSecurity)))

generate_recommendations(logs) == cut_to_five(all_recommendations(logs))

----------------------------------------------------------------------------
(* _detect_anomalies *)

\* the number of adjacent pairs of the sorted instants less than 10 s apart
rapid_errors(error_times) ==
    Cardinality({i \in 2..Len(error_times) : error_times[i] - error_times[i - 1] < 10})

\* avg_duration * 3 in binary64 where it is not the exact product: the mean
\* of durations that are 0 or d, a third of d, is rounded down for d = 0.9 ms
\* and its product with 3 stays below d; for the whole milliseconds of the
\* model the product is exact
rounded_below(durations, d) ==
    d = 9 /\ \A i \in 1..Len(durations) : durations[i] \in {0, d}

\* the number of durations d with d > avg_duration * 3
outliers(durations, sum) ==
    Cardinality({i \in 1..Len(durations) :
                    \/ durations[i] * Len(durations) > 3 * sum
                    \/ /\ durations[i] * Len(durations) = 3 * sum
                       /\ rounded_below(durations, durations[i])})

outlier_count(durations) == outliers(durations, SumSeq(durations))

anomalies_list(error_times, rapid, users, perf_logs, outlying) ==
    IF ~error_times.ok THEN error_times
    ELSE IF perf_logs # <<>> /\ MeanRaises(perf_logs) THEN Raise(CantConvert)
    ELSE Ok(
        (IF rapid > 3 THEN <<Line("Detected rapid error sequences", "", rapid)>> ELSE <<>>)
     \o (IF users > 100
         THEN <<Line("Unusually high user activity detected", "", 0)>>
         ELSE <<>>)
     \o (IF perf_logs # <<>> /\ outlying > 0
         THEN <<Line("Detected performance outliers", "", outlying)>>
         ELSE <<>>))

anomalies_after_sort(error_times, users, perf_logs) ==
    anomalies_list(error_times, rapid_errors(error_times.val), users, perf_logs,
                   outlier_count(MapSeq(perf_logs, DurationOf)))

detect_anomalies(logs) ==
    anomalies_after_sort(sort_datetimes(timestamps_of(error_logs_of(logs))),
                         Len(Where(logs.items, IsUserInteraction)),
                         perf_logs_of(logs))

----------------------------------------------------------------------------
(* _calculate_time_span and _extract_insights *)

span_of(timestamps, sorted) ==
    IF Len(timestamps) < 2 THEN Ok(0)
    ELSE IF ~sorted.ok THEN sorted
    ELSE Ok(sorted.val[Len(sorted.val)] - sorted.val[1])

sorted_span(timestamps) == span_of(timestamps, sort_datetimes(timestamps))

\* the span in seconds (the code divides it by 3600)
calculate_time_span(logs) == sorted_span(timestamps_of(logs.items))

ActionOf(log) == Get(log.action, "")

user_insight(top_action) ==
    IF top_action = <<>> THEN <<>>
    ELSE <<Line("Most frequent user action", top_action[1].key, top_action[1].n)>>

HasOutcome(log) == log.success \notin {ABSENT, NULL}
Succeeded(log) == log.success = "true"

\* success_rate in tenths of a percent, as ".1f" prints it
health_insight(total_operations, successful_operations) ==
    IF total_operations = 0 THEN <<>>
    ELSE IF 100 * successful_operations > 95 * total_operations
    THEN <<Line("Excellent system reliability: success rate", "",
                RoundHalfEven(1000 * successful_operations, total_operations))>>
    ELSE IF 100 * successful_operations > 85 * total_operations
    THEN <<Line("Good system reliability: success rate", "",
                RoundHalfEven(1000 * successful_operations, total_operations))>>
    ELSE <<Line("System reliability concerns: success rate", "",
                RoundHalfEven(1000 * successful_operations, total_operations))>>

insights_list(user, health, time_span) ==
    IF ~time_span.ok THEN time_span
    ELSE Ok(user \o health
            \o (IF time_span.val # 0
                THEN <<Line("Analysis covers hours of system activity", "",
                            RoundHalfEven(time_span.val, 360))>>
                ELSE <<>>))

extract_insights(logs) ==
    insights_list(
        user_insight(most_common(
            Counter(MapSeq(Where(logs.items, IsUserInteraction), ActionOf)), 1)),
        health_insight(Len(Where(logs.items, HasOutcome)), Len(Where(logs.items, Succeeded))),
        IF logs.items # <<>> THEN calculate_time_span(logs) ELSE Ok(0))

----------------------------------------------------------------------------
(* _calculate_confidence, in hundredths *)

calculate_confidence(logs) ==
    IF Len(logs.items) = 0 THEN 0
    ELSE IF Len(logs.items) < 10 THEN 30
    ELSE IF Len(logs.items) < 50 THEN 60
    ELSE IF Len(logs.items) < 100 THEN 80
    ELSE 95

----------------------------------------------------------------------------
(* analyze_logs *)

\* an AnalysisResult
Analysis(severity, summary, patterns, recommendations, anomalies, insights, confidence) ==
    [severity |-> severity, summary |-> summary, patterns |-> patterns,
     recommendations |-> recommendations, anomalies |-> anomalies,
     insights |-> insights, confidence |-> confidence]

empty_analysis ==
    Analysis("low", Summary("No logs available for analysis", 0, 0, 0, 0, <<>>, ""),
             <<>>,
             <<Line("Enable logging for better system monitoring", "", 0)>>,
             <<>>,
             <<Line("System appears inactive or logging disabled", "", 0)>>,
             0)

\* the result both except clauses build, with their own recommendation
failure_result(e, recommendation) ==
    Analysis("medium", Summary("Analysis failed: ", 0, 0, 0, 0, <<>>, e.text),
             <<>>, <<Line(recommendation, "", 0)>>, <<>>, <<>>, 10)

NoResult == <<>>

\* a JSON document: its kind ("dict", "list", "null", "number", "str"), the value
\* under 'logs' and the values under its other keys
Document(kind, logs, other) == [kind |-> kind, logs |-> logs, other |-> other]

Facets == <<"severity", "summary", "patterns", "recommendations", "anomalies",
            "insights", "confidence">>

\* what a call does: the value returned (ret), the exception propagated
\* (exc), whether the except clause ran (caught), the facets entered, and the
\* analyzer and the argument as the call leaves them
Outcome(ret, exc, caught, entered, self, arg) ==
    [ret |-> ret, exc |-> exc, caught |-> caught, entered |-> entered,
     self |-> self, arg |-> arg]

\* except ValueError as e: return {...}
except_ValueError(e, entered, self, arg) ==
    IF e.type = "ValueError"
    THEN Outcome(<<failure_result(e, "Review log analysis system")>>, NoExc, TRUE,
                 entered, self, arg)
    ELSE Outcome(NoResult, e, FALSE, entered, self, arg)

\* except Exception as e: return {...}
except_Exception(e, entered, self, arg) ==
    IF e.type \in ExceptionClasses
    THEN Outcome(<<failure_result(e, "Review log analysis system")>>, NoExc, TRUE,
                 entered, self, arg)
    ELSE Outcome(NoResult, e, FALSE, entered, self, arg)

\* the dict display of analyze_logs: the seven facets in order
facet_values(self, logs) ==
    << calculate_overall_severity(logs),
       generate_summary(logs),
       identify_patterns(self, logs),
       generate_recommendations(logs),
       detect_anomalies(logs),
       extract_insights(logs),
       Ok(calculate_confidence(logs)) >>

\* the pattern loop consuming the table it walks: self.error_patterns.popitem()
build_analysis_popitem(v, failing, self, doc) ==
    IF failing # {}
    THEN except_Exception(v[Min(failing)].exc, SubSeq(Facets, 1, Min(failing)), self, doc)
    ELSE Outcome(<<Analysis(v[1].val, v[2].val, v[3].val, v[4].val, v[5].val,
                            v[6].val, v[7].val)>>,
                 NoExc, FALSE, Facets,
                 [self EXCEPT !.error_patterns = IF @ = <<>> THEN @ ELSE Tail(@)], doc)

\* the display is evaluated up to the first facet that raises
build_analysis(v, failing, self, doc) ==
    IF failing # {}
    THEN except_Exception(v[Min(failing)].exc, SubSeq(Facets, 1, Min(failing)), self, doc)
    ELSE Outcome(<<Analysis(v[1].val, v[2].val, v[3].val, v[4].val, v[5].val,
                            v[6].val, v[7].val)>>,
                 NoExc, FALSE, Facets, self, doc)

analyze_facets(v, self, doc) == build_analysis(v, {i \in 1..7 : ~v[i].ok}, self, doc)

\* the facets computed without the `if not logs` branch
analyze_batch_unguarded(self, doc, logs) ==
    IF logs.kind \in {"null", "zero"}
    THEN except_Exception(NotIterable(KindTypeName(logs.kind)), <<"severity">>, self, doc)
    ELSE analyze_facets(facet_values(self, logs), self, doc)

\* logs = logs_data.get('logs', []) onwards
analyze_batch(self, doc, logs) ==
    IF Falsy(logs) THEN Outcome(<<empty_analysis>>, NoExc, FALSE, <<>>, self, doc)
    ELSE analyze_facets(facet_values(self, logs), self, doc)

\* logs = logs_data['logs']: KeyError on a mapping without the key
analyze_logs_subscript(self, doc) ==
    IF doc.kind # "dict"
    THEN except_Exception(NotSubscriptable(KindTypeName(doc.kind)), <<>>, self, doc)
    ELSE IF doc.logs.kind = "absent"
    THEN except_Exception(Exc("KeyError", "'logs'"), <<>>, self, doc)
    ELSE analyze_batch(self, doc, doc.logs)

analyze_logs(self, doc) ==
    IF doc.kind # "dict"
    THEN except_Exception(NoAttribute(KindTypeName(doc.kind), "get"), <<>>, self, doc)
    ELSE analyze_batch(self, doc,
                       IF doc.logs.kind = "absent" THEN Logs("list", <<>>) ELSE doc.logs)

----------------------------------------------------------------------------
(* main *)

\* the text on standard input: kind "empty", "malformed" or "json", and for
\* "json" the document it denotes
Input(kind, doc) == [kind |-> kind, doc |-> doc]

NoDocument == Document("null", Logs("absent", <<>>), <<>>)

json_loads(input) ==
    IF input.kind = "json" THEN Ok(input.doc) ELSE Raise(JSONDecodeError)

\* json.dumps of a result, read back as an input text: an object whose keys
\* are those of the result, none of them 'logs'
json_dumps(res) == Input("json", Document("dict", Logs("absent", <<>>), <<res>>))

\* what a run of main() does after reading input: the call it made, if any,
\* the document it printed, the except clause that built that document, and
\* the exception that ended the process
Run(called, call, printed, caught, exc) ==
    [called |-> called, call |-> call, printed |-> printed, caught |-> caught,
     exc |-> exc]

NoCall == Outcome(NoResult, NoExc, FALSE, <<>>, LogPatternAnalyzer, NoDocument)

\* the except clause of main() with the recommendation of analyze_logs
main_except_review(e, called, call) ==
    IF e.type \in ExceptionClasses
    THEN Run(called, call, <<failure_result(e, "Review log analysis system")>>, "main", NoExc)
    ELSE Run(called, call, <<>>, "none", e)

\* except Exception as e: print(json.dumps(error_result, indent=2))
main_except(e, called, call) ==
    IF e.type \in ExceptionClasses
    THEN Run(called, call, <<failure_result(e, "Check log analysis system")>>, "main", NoExc)
    ELSE Run(called, call, <<>>, "none", e)

\* print(json.dumps(result, indent=2))
main_print(call) ==
    IF call.exc # NoExc THEN main_except(call.exc, TRUE, call)
    ELSE Run(TRUE, call, call.ret, IF call.caught THEN "analyze_logs" ELSE "none", NoExc)

main_parsed(logs_doc) ==
    IF ~logs_doc.ok THEN main_except(logs_doc.exc, FALSE, NoCall)
    ELSE main_print(analyze_logs(LogPatternAnalyzer, logs_doc.val))

main(input_data) == main_parsed(json_loads(input_data))

----------------------------------------------------------------------------
(* The inputs *)

MaxLogs == 2
MaxTimed == 3
MaxBurst == 5
MaxDurations == 4
MaxDevices == 3
MaxOutcomes == 21

Clock(h, m, sec) == 3600 * h + 60 * m + sec

Plain(level) ==
    Log(level, "system", <<ABSENT>>, ABSENT, NoDuration, ABSENT, NoTimestamp, ABSENT)

EveryCategory ==
    <<"timeout", "device", "not", "found", "auth", "failed", "config", "error">>

\* the records the batches are made of
LevelRecords == {Plain(level) : level \in {"info", "error", "critical", "ERROR", NULL}}

TimedRecords ==
    {[Plain(level) EXCEPT !.timestamp = ts] :
        level \in {"info", "error"},
        ts \in {Naive(Clock(10, 0, 0)), Zulu(Clock(10, 0, 5)), Naive(Clock(9, 0, 0)),
                NullTimestamp, GarbageTimestamp}}
    \cup {[Plain("info") EXCEPT !.timestamp = NumberTimestamp]}

MessageRecords ==
    {[Plain("error") EXCEPT !.message = m] :
        m \in {<<"connection", "TIMEOUT">>, <<"auth", "failed">>, <<NULL>>}}
    \cup {[Plain("info") EXCEPT !.message = <<"timeout">>],
          [Plain("error") EXCEPT !.message = EveryCategory,
                                 !.deviceType = "wolf_pack",
                                 !.timestamp = Naive(Clock(10, 0, 0))]}

DeviceRecords ==
    {[Plain("error") EXCEPT !.deviceType = "wolf_pack"],
     [Plain("error") EXCEPT !.deviceType = "atlas", !.duration = Millis(20000),
                            !.category = "security"],
     [Plain("info") EXCEPT !.deviceType = "atlas", !.success = "true",
                           !.category = "hardware"],
     [Plain("info") EXCEPT !.duration = Millis(100)],
     [Plain("info") EXCEPT !.duration = TextDuration],
     [Plain("info") EXCEPT !.category = "user_interaction", !.action = "click",
                           !.success = "false"],
     [Plain("info") EXCEPT !.success = "yes"],
     [Plain("info") EXCEPT !.category = "security"]}

Records ==
    LevelRecords \cup TimedRecords \cup MessageRecords \cup DeviceRecords
    \cup {NonMapping("null")}

\* the times of a run of records that starts at 10:00:00 and goes on with
\* the given gaps in seconds
BurstTimes(gaps) ==
    [i \in 1..(Len(gaps) + 1) |-> Clock(10, 0, 0) + SumSeq(SubSeq(gaps, 1, i - 1))]

Reversed(s) == [i \in 1..Len(s) |-> s[Len(s) + 1 - i]]

\* error records at the given times, the one at index zulu written with a
\* trailing Z and the others without offset
BurstOf(times, zulu) ==
    [i \in 1..Len(times) |->
        [Plain("error") EXCEPT !.timestamp = IF i = zulu THEN Zulu(times[i])
                                                         ELSE Naive(times[i])]]

\* runs of up to MaxBurst error records 2, 10 or 12 seconds apart, oldest
\* first or newest first
BurstBatches ==
    UNION {{BurstOf(BurstTimes(gaps), zulu) : gaps \in [1..(n - 1) -> {2, 10, 12}],
                                             zulu \in 0..n} : n \in 1..MaxBurst}

\* records with the given durations; the first two carry timestamps five
\* seconds apart, the second one with a trailing Z when mixed
TimedOperations(durations, mixed) ==
    [i \in 1..Len(durations) |->
        [Plain("info") EXCEPT
            !.duration = durations[i],
            !.timestamp = CASE i = 1 -> Naive(Clock(10, 0, 0))
                            [] i = 2 /\ mixed -> Zulu(Clock(10, 0, 5))
                            [] i = 2 /\ ~mixed -> Naive(Clock(10, 0, 5))
                            [] OTHER -> NoTimestamp]]

\* batches of MaxDurations records with a duration of 0, 0.9, 100 or 300 ms
\* or none
DurationBatches ==
    {TimedOperations(durations, mixed) :
        durations \in [1..MaxDurations ->
                          {Millis(0), Tenths(9), Millis(100), Millis(300), NoDuration}],
        mixed \in BOOLEAN}

\* batches of MaxDevices records of three device types, with and without
\* a timestamp, and of successful records without device type, one of them
\* a security event
DeviceBatches ==
    [1..MaxDevices ->
        {[Plain("error") EXCEPT !.deviceType = "wolf_pack"],
         [Plain("error") EXCEPT !.deviceType = "wolf_pack",
                                !.timestamp = Naive(Clock(10, 0, 0))],
         [Plain("error") EXCEPT !.deviceType = "atlas"],
         [Plain("critical") EXCEPT !.deviceType = "directv"],
         [Plain("info") EXCEPT !.deviceType = "atlas", !.success = "true"],
         [Plain("info") EXCEPT !.success = "true", !.timestamp = Zulu(Clock(10, 0, 5))],
         [Plain("info") EXCEPT !.success = "true", !.category = "security"]}]

\* so many successful records, then so many failed ones
Outcomes(successes, failures) ==
    [i \in 1..(successes + failures) |->
        [Plain("info") EXCEPT !.success = IF i <= successes THEN "true" ELSE "false"]]

\* batches of up to MaxOutcomes records of which up to three failed
OutcomeBatches ==
    UNION {{Outcomes(successes, failures) : failures \in 0..Min({3, MaxOutcomes - successes})} :
              successes \in 0..MaxOutcomes}

\* every batch of up to MaxLogs records, the batches of MaxTimed records
\* that differ in level and timestamp only, the runs of error records, the
\* batches of timed operations, of device records and of outcomes
Batches ==
    UNION {[1..n -> Records] : n \in 0..MaxLogs}
    \cup [1..MaxTimed -> TimedRecords]
    \cup BurstBatches
    \cup {Reversed(batch) : batch \in BurstBatches}
    \cup DurationBatches
    \cup DeviceBatches
    \cup OutcomeBatches

\* documents that are no mapping, mappings whose 'logs' is no list, and
\* mappings with a batch
Documents ==
    {Document(kind, Logs("absent", <<>>), <<>>) : kind \in {"list", "null", "number", "str"}}
    \cup {Document("dict", Logs(kind, <<>>), <<>>) : kind \in {"absent", "null", "zero", "number"}}
    \cup {Document("dict", Logs(kind, <<NonMapping("str")>>), <<>>) : kind \in {"str", "dict"}}
    \cup {Document("dict", Logs("list", batch), <<>>) : batch \in Batches}

Inputs ==
    {Input("empty", NoDocument), Input("malformed", NoDocument)}
    \cup {Input("json", doc) : doc \in Documents}

----------------------------------------------------------------------------
(* The state machine *)

Init ==
    /\ error_patterns = init_error_patterns
    /\ severity_keywords = init_severity_keywords
    /\ pc = "idle"
    /\ stdin = <<>>
    /\ logs_data = <<>>
    /\ evaluated = <<>>
    /\ result = NoResult
    /\ raised = NoExc
    /\ caught_in = "none"
    /\ stdout = <<>>
    /\ data = <<>>
    /\ analysis_result = <<>>

\* a caller invokes analyzer.analyze_logs(doc) on the long-lived analyzer
Call(docs) ==
    /\ pc = "idle"
    /\ pc' = "called"
    /\ \E doc \in docs : logs_data' = <<doc>>
    /\ UNCHANGED <<error_patterns, severity_keywords, stdin, evaluated, result,
                   raised, caught_in, stdout, data, analysis_result>>

\* the state a call leaves
Returns(out) ==
    /\ result' = out.ret
    /\ raised' = out.exc
    /\ evaluated' = out.entered
    /\ caught_in' = IF out.caught THEN "analyze_logs" ELSE "none"
    /\ error_patterns' = out.self.error_patterns
    /\ severity_keywords' = out.self.severity_keywords
    /\ logs_data' = <<out.arg>>

\* the body of analyze_logs
AnalyzeLogs ==
    /\ pc = "called"
    /\ Returns(analyze_logs([error_patterns |-> error_patterns,
                              severity_keywords |-> severity_keywords],
                             logs_data[1]))
    /\ pc' = "returned"
    /\ UNCHANGED <<stdin, stdout, data, analysis_result>>

\* the caller drops the result
Return ==
    /\ pc = "returned"
    /\ pc' = "idle"
    /\ logs_data' = <<>>
    /\ evaluated' = <<>>
    /\ result' = NoResult
    /\ raised' = NoExc
    /\ caught_in' = "none"
    /\ UNCHANGED <<error_patterns, severity_keywords, stdin, stdout, data, analysis_result>>

\* a process starts and main() reads its standard input
ReadStdin(inputs) ==
    /\ pc = "idle"
    /\ pc' = "read"
    /\ \E input_data \in inputs : stdin' = <<input_data>>
    /\ UNCHANGED <<error_patterns, severity_keywords, logs_data, evaluated, result,
                   raised, caught_in, stdout, data, analysis_result>>

\* the state a run of main() leaves
Prints(run) ==
    /\ logs_data' = IF run.called THEN <<run.call.arg>> ELSE <<>>
    /\ result' = run.call.ret
    /\ evaluated' = run.call.entered
    /\ raised' = run.exc
    /\ caught_in' = run.caught
    /\ stdout' = run.printed

\* the rest of main(): parse, analyze with an analyzer of its own, print
Main ==
    /\ pc = "read"
    /\ Prints(main(stdin[1]))
    /\ pc' = "printed"
    /\ UNCHANGED <<error_patterns, severity_keywords, stdin, data, analysis_result>>

\* the process ends
Exit ==
    /\ pc = "printed"
    /\ pc' = "idle"
    /\ stdin' = <<>>
    /\ logs_data' = <<>>
    /\ evaluated' = <<>>
    /\ result' = NoResult
    /\ raised' = NoExc
    /\ caught_in' = "none"
    /\ stdout' = <<>>
    /\ UNCHANGED <<error_patterns, severity_keywords, data, analysis_result>>

\* the printed document is given to a new process as its input
FeedBack ==
    /\ pc = "printed"
    /\ stdout # <<>>
    /\ pc' = "read"
    /\ stdin' = <<json_dumps(stdout[1])>>
    /\ logs_data' = <<>>
    /\ evaluated' = <<>>
    /\ result' = NoResult
    /\ raised' = NoExc
    /\ caught_in' = "none"
    /\ stdout' = <<>>
    /\ UNCHANGED <<error_patterns, severity_keywords, data, analysis_result>>

Next ==
    \/ Call(Documents)
    \/ AnalyzeLogs
    \/ Return
    \/ ReadStdin(Inputs)
    \/ Main
    \/ Exit
    \/ FeedBack

Spec == Init /\ [][Next]_vars

----------------------------------------------------------------------------
(* What the properties speak of *)

\* a call of analyze_logs has completed, directly or inside main()
Completed == pc \in {"returned", "printed"} /\ logs_data # <<>>

\* the argument is a mapping whose 'logs' is a list
IsBatch(doc) == doc.kind = "dict" /\ doc.logs.kind = "list"

AsDocument(items) == Document("dict", Logs("list", items), <<>>)

\* a LogRecord of the data model: a mapping with a string level and category,
\* a text message, a boolean success, a numeric duration, a string device
\* type and action, the optional ones possibly absent, and a timestamp that
\* is an ISO-8601 string, absent or malformed
WellFormed(log) ==
    /\ log.kind = "dict"
    /\ IsStr(log.level)
    /\ IsStr(log.category)
    /\ IsText(log.message) \/ log.message = <<ABSENT>>
    /\ log.success \in {"true", "false", ABSENT}
    /\ log.duration.k \in {"num", "absent"}
    /\ log.deviceType \notin {NULL, NUMBER}
    /\ log.action \notin {NULL, NUMBER}
    /\ log.timestamp.k \in {"naive", "zulu", "absent", "garbage"}

WellFormedBatch(doc) ==
    IsBatch(doc) /\ \A i \in 1..Len(doc.logs.items) : WellFormed(doc.logs.items[i])

\* the number of records whose level is 'error' or 'critical'
ErrorCount(items) ==
    Cardinality({i \in 1..Len(items) : items[i].level \in {"error", "critical"}})

\* the fallback result with the given recommendation
IsFallback(res, recommendation) ==
    /\ res.severity = "medium"
    /\ res.summary.kind = "Analysis failed: "
    /\ res.summary.error_text # ""
    /\ res.patterns = <<>>
    /\ res.anomalies = <<>>
    /\ res.insights = <<>>
    /\ res.recommendations = <<Line(recommendation, "", 0)>>
    /\ res.confidence = 10

----------------------------------------------------------------------------
(* C1 *)

\* the severity the thresholds 0.20, 0.10 and 0.05 give to e errors in n records
ThresholdSeverity(e, n) ==
    IF 100 * e > 20 * n THEN "critical"
    ELSE IF 100 * e > 10 * n THEN "high"
    ELSE IF 100 * e > 5 * n THEN "medium"
    ELSE "low"

\* C1: for every non-empty batch of log records, with e the number of records
\* whose level is 'error' or 'critical' and n the number of records, the
\* severity returned is 'critical' when e/n > 0.20, 'high' when
\* 0.10 < e/n <= 0.20, 'medium' when 0.05 < e/n <= 0.10 and 'low' otherwise.
C1_SeverityFollowsErrorRate ==
    (Completed /\ WellFormedBatch(logs_data[1]) /\ logs_data[1].logs.items # <<>>)
    => /\ Len(result) = 1
       /\ result[1].severity =
              ThresholdSeverity(ErrorCount(logs_data[1].logs.items),
                                Len(logs_data[1].logs.items))

----------------------------------------------------------------------------
(* C2 *)

\* an argument on which the analysis is bound to raise: no mapping, a 'logs'
\* that is a number, a record that is no mapping or whose level is no string
BoundToRaise(doc) ==
    \/ doc.kind # "dict"
    \/ doc.logs.kind = "number"
    \/ /\ doc.logs.kind \in {"list", "str", "dict"}
       /\ \E i \in 1..Len(doc.logs.items) :
              \/ doc.logs.items[i].kind # "dict"
              \/ doc.logs.items[i].level \in {NULL, NUMBER}

\* C2: every call of analyze_logs, whatever its argument, returns a result
\* and raises nothing; an argument that makes the analysis raise gets the
\* fallback result, and the fallback result is exactly severity 'medium',
\* summary 'Analysis failed: <error text>', no patterns, anomalies or insights,
\* the one recommendation 'Review log analysis system' and confidence 0.1.
C2_NeverRaises ==
    Completed
    => /\ raised = NoExc
       /\ Len(result) = 1
       /\ BoundToRaise(logs_data[1]) => caught_in = "analyze_logs"
       /\ caught_in = "analyze_logs"
              => IsFallback(result[1], "Review log analysis system")

\* a record with a null level in a non-empty batch has made the analysis
\* raise, and the call has returned the fallback result
C2_FallbackReturned ==
    /\ pc = "returned"
    /\ IsBatch(logs_data[1])
    /\ \E i \in 1..Len(logs_data[1].logs.items) : logs_data[1].logs.items[i].level = NULL
    /\ raised = NoExc
    /\ caught_in = "analyze_logs"
    /\ IsFallback(result[1], "Review log analysis system")

----------------------------------------------------------------------------
(* C3 *)

\* C3: for the empty batch the call evaluates none of the seven facets and
\* returns severity 'low', confidence 0.0, the summary 'No logs available for
\* analysis', no patterns, no anomalies and the one insight 'System appears
\* inactive or logging disabled'.
C3_EmptyBatchBranch ==
    (Completed /\ IsBatch(logs_data[1]) /\ logs_data[1].logs.items = <<>>)
    => /\ evaluated = <<>>
       /\ raised = NoExc
       /\ caught_in = "none"
       /\ Len(result) = 1
       /\ result[1].severity = "low"
       /\ result[1].confidence = 0
       /\ result[1].summary.kind = "No logs available for analysis"
       /\ result[1].patterns = <<>>
       /\ result[1].anomalies = <<>>
       /\ result[1].insights =
              <<Line("System appears inactive or logging disabled", "", 0)>>

\* a call on {"logs": []} has returned
C3_EmptyBatchReturned ==
    /\ pc = "returned"
    /\ IsBatch(logs_data[1])
    /\ logs_data[1].logs.items = <<>>
    /\ Len(result) = 1
    /\ result[1].severity = "low"

----------------------------------------------------------------------------
(* C4 *)

\* the steps of the confidence, in hundredths
StepConfidence(n) ==
    IF n = 0 THEN 0
    ELSE IF n <= 9 THEN 30
    ELSE IF n <= 49 THEN 60
    ELSE IF n <= 99 THEN 80
    ELSE 95

\* C4: the confidence returned for a batch of log records is the step
\* function of the number of its records alone (0 -> 0.0, 1..9 -> 0.3,
\* 10..49 -> 0.6, 50..99 -> 0.8, 100 or more -> 0.95), whatever the records
\* hold.
C4_ConfidenceBySizeAlone ==
    (Completed /\ WellFormedBatch(logs_data[1]))
    => /\ Len(result) = 1
       /\ result[1].confidence = StepConfidence(Len(logs_data[1].logs.items))

----------------------------------------------------------------------------
(* C5 *)

\* C5: in every result, normal, empty-batch or fallback, returned or printed,
\* patterns and recommendations each have at most five entries.
C5_AtMostFive ==
    /\ \A i \in 1..Len(result) :
           Len(result[i].patterns) <= 5 /\ Len(result[i].recommendations) <= 5
    /\ \A i \in 1..Len(stdout) :
           Len(stdout[i].patterns) <= 5 /\ Len(stdout[i].recommendations) <= 5

\* a batch with more than five patterns has been analyzed and five were returned
C5_PatternsCut ==
    /\ pc = "returned"
    /\ Len(result) = 1
    /\ Len(result[1].patterns) = 5
    /\ IsBatch(logs_data[1])
    /\ Len(all_patterns(LogPatternAnalyzer, logs_data[1].logs).val) > 5

----------------------------------------------------------------------------
(* C6 *)

Rank(severity) ==
    CASE severity = "low" -> 0
      [] severity = "medium" -> 1
      [] severity = "high" -> 2
      [] severity = "critical" -> 3

\* the batches the batch of the call is compared with
ReferenceBatches ==
    {<<Plain("info")>>, <<Plain("error")>>, <<Plain("error"), Plain("info")>>}

SeverityOf(items) == analyze_logs(LogPatternAnalyzer, AsDocument(items)).ret[1].severity

\* the batch with the lower or equal error rate has the lower or equal severity
RateOrdersSeverity(a, severityA, b, severityB) ==
    ErrorCount(a) * Len(b) <= ErrorCount(b) * Len(a) => Rank(severityA) <= Rank(severityB)

\* C6: of two non-empty batches of log records, the one whose error rate
\* (error and critical records over all records) is lower or equal never gets
\* the higher severity, in the order low < medium < high < critical.
C6_SeverityMonotonic ==
    (Completed /\ WellFormedBatch(logs_data[1]) /\ logs_data[1].logs.items # <<>>
        /\ Len(result) = 1)
    => \A other \in ReferenceBatches :
           /\ RateOrdersSeverity(logs_data[1].logs.items, result[1].severity,
                                 other, SeverityOf(other))
           /\ RateOrdersSeverity(other, SeverityOf(other),
                                 logs_data[1].logs.items, result[1].severity)

----------------------------------------------------------------------------
(* C7 *)

\* C7: a call on the long-lived analyzer, whatever calls came before it,
\* returns what a new analyzer returns for the same argument, and leaves its
\* argument and the analyzer's two tables as they were.
C7_NoStateAcrossCalls ==
    [][pc = "called"
       => /\ result' = analyze_logs(LogPatternAnalyzer, logs_data[1]).ret
          /\ logs_data' = logs_data
          /\ error_patterns' = error_patterns
          /\ severity_keywords' = severity_keywords]_vars

\* a call that read the pattern table has returned, and the tables are
\* those of a new analyzer
C7_TablesReadAndKept ==
    /\ pc = "returned"
    /\ Len(result) = 1
    /\ \E i \in 1..Len(result[1].patterns) : result[1].patterns[i].text = "Detected pattern"
    /\ error_patterns = init_error_patterns
    /\ severity_keywords = init_severity_keywords

----------------------------------------------------------------------------
(* C8 *)

HasRecommendation(res, recommendation) ==
    \E i \in 1..Len(res.recommendations) : res.recommendations[i].text = recommendation

\* C8: main() prints one document and ends without an exception whatever
\* it reads; input that is empty or no JSON is caught in main(); the document
\* printed is the fallback result with 'Check log analysis system' when the
\* failure was caught in main(), the fallback result with 'Review log
\* analysis system' when it was caught in analyze_logs, and holds neither
\* recommendation when nothing was caught.
C8_MainBoundary ==
    pc = "printed"
    => /\ raised = NoExc
       /\ Len(stdout) = 1
       /\ stdin[1].kind \in {"empty", "malformed"} => caught_in = "main"
       /\ caught_in = "main" => IsFallback(stdout[1], "Check log analysis system")
       /\ caught_in = "analyze_logs" => IsFallback(stdout[1], "Review log analysis system")
       /\ caught_in = "none"
              => /\ ~HasRecommendation(stdout[1], "Check log analysis system")
                 /\ ~HasRecommendation(stdout[1], "Review log analysis system")

\* main() has read text that is no JSON and printed the fallback result
C8_MalformedInputPrinted ==
    /\ pc = "printed"
    /\ stdin[1].kind = "malformed"
    /\ caught_in = "main"
    /\ Len(stdout) = 1
    /\ IsFallback(stdout[1], "Check log analysis system")

----------------------------------------------------------------------------
(* C9 *)

\* main() has run on the document a previous run printed
FedBack == pc = "printed" /\ stdin[1].kind = "json" /\ stdin[1].doc.other # <<>>

\* C9: main() given the output document of an analysis as its input prints
\* the failure result (severity 'medium', summary 'Analysis failed: ...',
\* confidence 0.1) and does not crash.
C9_RoundTripFails ==
    FedBack
    => /\ raised = NoExc
       /\ Len(stdout) = 1
       /\ stdout[1].severity = "medium"
       /\ stdout[1].summary.kind = "Analysis failed: "
       /\ stdout[1].confidence = 10

\* C9, amended: main() given the output document of an analysis as its input
\* prints the empty-batch result (severity 'low', summary 'No logs available
\* for analysis', confidence 0.0), catches nothing and does not crash.
C9_RoundTripIsEmptyBatch ==
    FedBack
    => /\ raised = NoExc
       /\ caught_in = "none"
       /\ Len(stdout) = 1
       /\ stdout[1].severity = "low"
       /\ stdout[1].summary.kind = "No logs available for analysis"
       /\ stdout[1].confidence = 0

\* the result of a normal analysis has been fed back and answered
C9_NormalResultFedBack ==
    /\ FedBack
    /\ stdin[1].doc.other[1].summary.kind = "counts"
    /\ stdin[1].doc.other[1].confidence = 30
    /\ Len(stdout) = 1

----------------------------------------------------------------------------
(* C10 *)

\* a timestamp that is absent, null, no string or unparseable
BadTimestamp(log) == log.timestamp.k \in {"absent", "null", "number", "garbage"}
UsableTimestamp(log) == ~BadTimestamp(log)

OtherwiseWellFormed(log) == WellFormed([log EXCEPT !.timestamp = NoTimestamp])

IsTimeBased(line) ==
    line.text \in {"Peak activity at hour", "Detected rapid error sequences",
                   "Analysis covers hours of system activity"}

\* the peak hour, the rapid error sequences and the time span of a result
TimeBased(res) ==
    Where(res.patterns, IsTimeBased) \o Where(res.anomalies, IsTimeBased)
    \o Where(res.insights, IsTimeBased)

Remaining(items) == analyze_logs(LogPatternAnalyzer, AsDocument(Where(items, UsableTimestamp))).ret[1]

\* C10: for a batch of otherwise well-formed records of which some have a
\* timestamp that is absent, null, no string or unparseable, the result is
\* not the 'Analysis failed' fallback, and its peak hour, rapid error
\* sequences and time span are those of the batch without these records.
C10_BadTimestampOnlySkipped ==
    (/\ Completed
     /\ IsBatch(logs_data[1])
     /\ \A i \in 1..Len(logs_data[1].logs.items) :
            OtherwiseWellFormed(logs_data[1].logs.items[i])
     /\ \E i \in 1..Len(logs_data[1].logs.items) :
            BadTimestamp(logs_data[1].logs.items[i]))
    => /\ Len(result) = 1
       /\ result[1].summary.kind # "Analysis failed: "
       /\ TimeBased(result[1]) = TimeBased(Remaining(logs_data[1].logs.items))

----------------------------------------------------------------------------
(* C11 *)

\* the instants of the parseable timestamps of the error and critical
\* records, ascending
SortedErrorInstants(items) ==
    SortSeq(MapSeq(timestamps_of(Where(items, IsErrorLog)), Instant), Earlier)

\* the number of adjacent pairs less than 10 seconds apart
CloseGaps(instants) ==
    Cardinality({i \in 2..Len(instants) : instants[i] - instants[i - 1] < 10})

IsRapidLine(line) == line.text = "Detected rapid error sequences"

RapidLines(n) ==
    IF n > 3 THEN <<Line("Detected rapid error sequences", "", n)>> ELSE <<>>

\* C11: for a batch of log records, with N the number of adjacent pairs less
\* than 10 seconds apart among the ascending parseable timestamps of its
\* error and critical records, anomalies holds 'Detected N rapid error
\* sequences' if and only if N > 3.
C11_RapidErrorSequences ==
    (Completed /\ WellFormedBatch(logs_data[1]) /\ logs_data[1].logs.items # <<>>)
    => /\ Len(result) = 1
       /\ Where(result[1].anomalies, IsRapidLine)
              = RapidLines(CloseGaps(SortedErrorInstants(logs_data[1].logs.items)))

----------------------------------------------------------------------------
(* C12 *)

HasNumericDuration(log) == log.duration.k = "num"

\* the durations of the records that carry one
NumericDurations(items) == MapSeq(Where(items, HasNumericDuration), DurationOf)

\* the number of durations strictly greater than three times their mean
AboveThreeMeans(durations) ==
    Cardinality({i \in 1..Len(durations) :
                    Len(durations) * durations[i] > 3 * SumSeq(durations)})

IsOutlierLine(line) == line.text = "Detected performance outliers"

OutlierLines(n) ==
    IF n >= 1 THEN <<Line("Detected performance outliers", "", n)>> ELSE <<>>

\* C12: for a batch of log records, with m the mean of the durations of the
\* records that carry a numeric duration and N the number of those durations
\* strictly greater than 3*m, anomalies holds 'Detected N performance
\* outliers' if and only if N >= 1; records without duration count in neither.
C12_DurationOutliers ==
    (Completed /\ WellFormedBatch(logs_data[1]) /\ logs_data[1].logs.items # <<>>)
    => /\ Len(result) = 1
       /\ Where(result[1].anomalies, IsOutlierLine)
              = OutlierLines(AboveThreeMeans(NumericDurations(logs_data[1].logs.items)))

----------------------------------------------------------------------------
(* C13 *)

HasCategorySecurity(log) == log.category = "security"
IsErrorWithDevice(log) == log.level \in {"error", "critical"} /\ HasDevice(log)

\* up to two device types of the error and critical records, by error count
\* descending, equal counts in first-seen order
TopErrorDevices(items) ==
    most_common(Counter(MapSeq(Where(items, IsErrorWithDevice), DeviceOf)), 2)

\* the four rules in their order, cut to the first five lines
RuleRecommendations(items, durations, devices) ==
    Prefix(
        (IF 100 * ErrorCount(items) > 10 * Len(items)
         THEN <<Line("High error rate detected - investigate system stability", "", 0)>>
         ELSE <<>>)
     \o (IF durations # <<>> /\ SumSeq(durations) > 50000 * Len(durations)
         THEN <<Line("Average response time is high - optimize slow operations", "", 0)>>
         ELSE <<>>)
     \o [i \in 1..Len(devices) |->
            Line("Check device - errors detected", devices[i].key, devices[i].n)]
     \o (IF \E i \in 1..Len(items) : HasCategorySecurity(items[i])
         THEN <<Line("Security events detected - review access logs", "", 0)>>
         ELSE <<>>),
        5)

\* C13: the recommendations returned for a batch of log records are, in this
\* order and cut to the first five: the high error rate line iff the error
\* rate exceeds 0.10, the response time line iff the mean of the present
\* durations exceeds 5000, up to two 'Check <device> device - <count> errors
\* detected' lines for the device types of the error and critical records by
\* error count descending with ties in first-seen order, and the security
\* line iff some record has category 'security'.
C13_RecommendationRules ==
    (Completed /\ WellFormedBatch(logs_data[1]) /\ logs_data[1].logs.items # <<>>)
    => /\ Len(result) = 1
       /\ result[1].recommendations
              = RuleRecommendations(logs_data[1].logs.items,
                                    NumericDurations(logs_data[1].logs.items),
                                    TopErrorDevices(logs_data[1].logs.items))

----------------------------------------------------------------------------
(* C14 *)

\* the hours of day of the records with a parseable timestamp
HoursOf(items) == MapSeq(timestamps_of(items), hour)

\* the lowest of the hours that occur most often
LowestBusiestHour(hours) ==
    Min({h \in 0..23 :
            /\ Occurrences(h, hours) > 0
            /\ \A g \in 0..23 : Occurrences(g, hours) <= Occurrences(h, hours)})

IsPeakLine(line) == line.text = "Peak activity at hour"

\* C14: for a batch of log records, the pattern 'Peak activity at hour H:00'
\* names the hour of day that most of the records with a parseable timestamp
\* fall in, and the lowest such hour when several hours share the maximum,
\* whatever the order of the records.
C14_PeakHourLowestOnTie ==
    (Completed /\ WellFormedBatch(logs_data[1]) /\ Len(result) = 1)
    => \A i \in 1..Len(result[1].patterns) :
           IsPeakLine(result[1].patterns[i])
           => result[1].patterns[i].n = LowestBusiestHour(HoursOf(logs_data[1].logs.items))

----------------------------------------------------------------------------
(* C15 *)

\* the records bearing a deviceType are error records of one device type,
\* and every other record is a successful record of another level
OneFailingDevice(items) ==
    /\ \E i \in 1..Len(items) : HasDevice(items[i])
    /\ \A i, j \in 1..Len(items) :
           HasDevice(items[i]) /\ HasDevice(items[j])
           => items[i].deviceType = items[j].deviceType
    /\ \A i \in 1..Len(items) :
           IF HasDevice(items[i]) THEN items[i].level = "error"
           ELSE items[i].level \notin {"error", "critical"} /\ items[i].success = "true"

TheDevice(items) == items[Min({i \in 1..Len(items) : HasDevice(items[i])})].deviceType

HasLine(lines, line) == \E i \in 1..Len(lines) : lines[i] = line

\* C15: for a batch of log records in which the records bearing a deviceType
\* are k >= 1 error records of one device type D and all other records are
\* successful records that are no errors, patterns holds 'Most active device
\* type: D (k operations)' and recommendations holds 'Check D device - k
\* errors detected', whatever the timestamps and messages of the records.
C15_OneFailingDevice ==
    (Completed /\ WellFormedBatch(logs_data[1]) /\ OneFailingDevice(logs_data[1].logs.items))
    => /\ Len(result) = 1
       /\ HasLine(result[1].patterns,
                  Line("Most active device type", TheDevice(logs_data[1].logs.items),
                       Len(Where(logs_data[1].logs.items, HasDevice))))
       /\ HasLine(result[1].recommendations,
                  Line("Check device - errors detected", TheDevice(logs_data[1].logs.items),
                       Len(Where(logs_data[1].logs.items, HasDevice))))

----------------------------------------------------------------------------
(* C16 *)

\* one to nine records, none with a duration, none of level error or critical
QuietBatch(items) ==
    /\ Len(items) \in 1..9
    /\ \A i \in 1..Len(items) :
           /\ items[i].duration.k = "absent"
           /\ items[i].level \notin {"error", "critical"}

\* C16: for a batch of 1 to 9 log records of which none has a duration and
\* none has level 'error' or 'critical', the result has severity 'low',
\* confidence 0.3, no anomalies and no recommendations.
C16_QuietBatch ==
    (Completed /\ WellFormedBatch(logs_data[1]) /\ QuietBatch(logs_data[1].logs.items))
    => /\ Len(result) = 1
       /\ result[1].severity = "low"
       /\ result[1].confidence = 30
       /\ result[1].anomalies = <<>>
       /\ result[1].recommendations = <<>>

----------------------------------------------------------------------------
(* C17 *)

\* a record of the data model but for its success field, which may hold
\* anything
AnyOutcome(log) == WellFormed([log EXCEPT !.success = ABSENT])

IsBoolean(log) == log.success \in {"true", "false"}

ReliabilityLines == {"Excellent system reliability: success rate",
                     "Good system reliability: success rate",
                     "System reliability concerns: success rate"}

IsReliabilityLine(line) == line.text \in ReliabilityLines
TextOf(line) == line.text

\* the insight for so many successes among so many boolean outcomes
ReliabilityTexts(successes, outcomes) ==
    IF outcomes = 0 THEN <<>>
    ELSE IF 100 * successes > 95 * outcomes
    THEN <<"Excellent system reliability: success rate">>
    ELSE IF 100 * successes > 85 * outcomes
    THEN <<"Good system reliability: success rate">>
    ELSE <<"System reliability concerns: success rate">>

\* C17: for a batch of log records, with the success rate taken over the
\* records whose success field is a boolean only, the success-rate insight
\* is returned if and only if there is such a record, and reads 'Excellent
\* system reliability' when the rate exceeds 95, 'Good system reliability'
\* when it exceeds 85 and 'System reliability concerns' otherwise.
C17_SuccessRateInsight ==
    (/\ Completed
     /\ IsBatch(logs_data[1])
     /\ logs_data[1].logs.items # <<>>
     /\ \A i \in 1..Len(logs_data[1].logs.items) : AnyOutcome(logs_data[1].logs.items[i]))
    => /\ Len(result) = 1
       /\ MapSeq(Where(result[1].insights, IsReliabilityLine), TextOf)
              = ReliabilityTexts(Len(Where(logs_data[1].logs.items, Succeeded)),
                                 Len(Where(logs_data[1].logs.items, IsBoolean)))

----------------------------------------------------------------------------
(* C18 *)

\* the instants of the parseable timestamps of the records
InstantsOf(items) == MapSeq(timestamps_of(items), Instant)

\* the seconds between the earliest and the latest of the instants
Elapsed(instants) ==
    Max({instants[i] : i \in 1..Len(instants)}) - Min({instants[i] : i \in 1..Len(instants)})

IsSpanLine(line) == line.text = "Analysis covers hours of system activity"

\* the hours are printed with one decimal place
SpanLines(instants) ==
    IF Len(instants) < 2 THEN <<>>
    ELSE <<Line("Analysis covers hours of system activity", "",
                RoundHalfEven(Elapsed(instants), 360))>>

\* C18: for a batch of log records, insights holds 'Analysis covers H hours
\* of system activity', H being the time between the earliest and the latest
\* parseable timestamp in hours, whenever at least two records have a
\* parseable timestamp, and does not hold it otherwise.
C18_TimeSpanInsight ==
    (Completed /\ WellFormedBatch(logs_data[1]) /\ logs_data[1].logs.items # <<>>)
    => /\ Len(result) = 1
       /\ Where(result[1].insights, IsSpanLine) = SpanLines(InstantsOf(logs_data[1].logs.items))

----------------------------------------------------------------------------
(* C19 *)

\* the batch with the records at two positions exchanged; every permutation
\* is a sequence of such exchanges
Exchanged(items, i, j) ==
    [k \in 1..Len(items) |->
        IF k = i THEN items[j] ELSE IF k = j THEN items[i] ELSE items[k]]

\* C19: for a batch of log records, the batch with any two of its records
\* exchanged, and so every permutation of the batch, gets the same result:
\* the same severity, summary, patterns, recommendations, anomalies, insights
\* and confidence.
C19_OrderIrrelevant ==
    (Completed /\ WellFormedBatch(logs_data[1]))
    => \A i, j \in 1..Len(logs_data[1].logs.items) :
           analyze_logs(LogPatternAnalyzer,
                        AsDocument(Exchanged(logs_data[1].logs.items, i, j))).ret = result

----------------------------------------------------------------------------
(* AtlasAudioAnalyzer.__init__: the table of audio patterns *)

\* error: what re.compile says of an expression that is no regular
\* expression; in phantom_power the alternative +48v repeats nothing
init_audio_patterns ==
    << [name |-> "signal_clipping", error |-> "",
        regex |-> {<<"clipping">>, <<"overload">>, <<"distortion">>, <<"peak", "limit">>}],
       [name |-> "phantom_power", error |-> "nothing to repeat at position 15",
        regex |-> {<<"phantom", "power">>, <<"+48v">>, <<"condenser", "mic">>}],
       [name |-> "feedback", error |-> "",
        regex |-> {<<"feedback">>, <<"howl">>, <<"oscillation">>, <<"ringing">>}],
       [name |-> "dropout", error |-> "",
        regex |-> {<<"dropout">>, <<"silence">>, <<"no", "signal">>, <<"mute", "stuck">>}],
       [name |-> "dante_network", error |-> "",
        regex |-> {<<"dante", "error">>, <<"network", "audio">>, <<"sync", "loss">>,
                   <<"clock", "error">>}],
       [name |-> "dsp_overload", error |-> "",
        regex |-> {<<"dsp", "overload">>, <<"processing", "limit">>, <<"cpu", "high">>}],
       [name |-> "scene_recall", error |-> "",
        regex |-> {<<"scene", "recall">>, <<"preset", "load">>,
                   <<"configuration", "change">>}],
       [name |-> "eq_saturation", error |-> "",
        regex |-> {<<"eq", "clip">>, <<"filter", "overload">>, <<"resonance">>}],
       [name |-> "compressor_pumping", error |-> "",
        regex |-> {<<"compressor", "pump">>, <<"dynamics", "issue">>, <<"gain", "reduce">>}],
       [name |-> "input_fault", error |-> "",
        regex |-> {<<"input", "fault">>, <<"mic", "error">>, <<"line", "problem">>}] >>

AtlasAudioAnalyzer == [audio_patterns |-> init_audio_patterns]

----------------------------------------------------------------------------
(* The argument of analyze_atlas_data *)

\* the value under 'metrics': kind "dict", "absent" or "null"; the two level
\* mappings as the sequences of their values in insertion order, in whole
\* dBFS; a number is Number(n), with NoDuration for a missing key,
\* NullDuration for null and TextDuration for a string
Metrics(kind, inputLevels, outputLevels, networkLatency, cpuLoad) ==
    [kind |-> kind, inputLevels |-> inputLevels, outputLevels |-> outputLevels,
     networkLatency |-> networkLatency, cpuLoad |-> cpuLoad]

Number(n) == [k |-> "num", n |-> n]

\* a JSON document given to the audio analyzer
AtlasDocument(kind, logs, metrics) == [kind |-> kind, logs |-> logs, metrics |-> metrics]

NotSupported(value) ==
    Exc("TypeError",
        "'>' not supported between instances of '"
            \o (IF value.k = "null" THEN "NoneType" ELSE "str") \o "' and 'int'")

\* metrics.get(key, 0) compared with a number
Compared(value) ==
    IF value.k = "num" THEN Ok(value.n)
    ELSE IF value.k = "absent" THEN Ok(0)
    ELSE Raise(NotSupported(value))

----------------------------------------------------------------------------
(* _analyze_audio_patterns *)

\* the patterns of the table tried in order on one message: re.error at the
\* first expression that does not compile
search_patterns(audio_patterns, message, broken) ==
    IF broken # {} THEN Raise(Exc("error", audio_patterns[Min(broken)].error))
    ELSE Ok({audio_patterns[i].name : i \in {j \in 1..Len(audio_patterns) :
                                               re_search(audio_patterns[j].regex, message)}})

\* the body of the loop for one log entry
search_entry(audio_patterns, log_entry) ==
    IF log_entry.kind # "dict"
    THEN Raise(NoAttribute(KindTypeName(log_entry.kind), "get"))
    ELSE IF log_entry.message \in {<<NULL>>, <<NUMBER>>}
    THEN Raise(NoAttribute(TypeName(log_entry.message[1]), "lower"))
    ELSE search_patterns(audio_patterns, MessageOf(log_entry),
                         {i \in 1..Len(audio_patterns) : audio_patterns[i].error # ""})

\* list(set(patterns_found)): the names found, or what the first failing
\* entry raised
patterns_found(found, failing) ==
    IF failing # {} THEN Raise(found[Min(failing)].exc)
    ELSE Ok(UNION {found[i].val : i \in 1..Len(found)})

entries_found(found) == patterns_found(found, {i \in 1..Len(found) : ~found[i].ok})

analyze_audio_patterns(audio_patterns, logs) ==
    IF logs.kind \in {"null", "zero", "number"}
    THEN Raise(NotIterable(KindTypeName(IF logs.kind = "zero" THEN "number" ELSE logs.kind)))
    ELSE entries_found([i \in 1..Len(logs.items) |->
                           search_entry(audio_patterns, logs.items[i])])

----------------------------------------------------------------------------
(* _analyze_signal_levels *)

input_penalty(level_db) ==
    IF level_db.n > -3 THEN 15 ELSE IF level_db.n < -35 THEN 10 ELSE 0

output_penalty(level_db) == IF level_db.n > -6 THEN 20 ELSE 0

\* quality_score, or TypeError at the first level that is no number
quality_score(levels, bad, input_levels, output_levels) ==
    IF bad # {} THEN Raise(NotSupported(levels[Min(bad)]))
    ELSE Ok(100 - SumSeq(MapSeq(input_levels, input_penalty))
                - SumSeq(MapSeq(output_levels, output_penalty)))

analyze_signal_levels(input_levels, output_levels) ==
    quality_score(input_levels \o output_levels,
                  {i \in 1..(Len(input_levels) + Len(output_levels)) :
                      (input_levels \o output_levels)[i].k # "num"},
                  input_levels, output_levels)

----------------------------------------------------------------------------
(* _analyze_network_performance and _analyze_dsp_performance *)

\* the score of a high latency set below every bound of _calculate_severity
stability_score_below_bounds(latency) ==
    IF latency > 50 THEN 25 ELSE IF latency > 20 THEN 75 ELSE 100

stability_score(latency) ==
    IF latency > 50 THEN 50 ELSE IF latency > 20 THEN 75 ELSE 100

network_analysis(latency) ==
    IF ~latency.ok THEN latency
    ELSE Ok([stability_score |-> stability_score(latency.val), latency |-> latency.val])

analyze_network_performance(metrics) == network_analysis(Compared(metrics.networkLatency))

\* load_percentage
analyze_dsp_performance(metrics) == Compared(metrics.cpuLoad)

----------------------------------------------------------------------------
(* _generate_atlas_recommendations *)

PerformanceMetrics(signalQuality, latencyMs, processingLoad, networkStability) ==
    [signalQuality |-> signalQuality, latencyMs |-> latencyMs,
     processingLoad |-> processingLoad, networkStability |-> networkStability]

generate_atlas_recommendations(metrics) ==
    [hardware |->
        IF metrics.networkStability < 90
        THEN <<"Check Dante network configuration and switch settings">> ELSE <<>>,
     configuration |->
        (IF metrics.signalQuality < 80
         THEN <<"Review input gain structure - some signals may be too hot or too low">>
         ELSE <<>>)
        \o (IF metrics.processingLoad > 85
            THEN <<"Consider reducing DSP processing load or upgrading processor">>
            ELSE <<>>),
     insights |->
        (IF metrics.signalQuality < 80
         THEN <<"Proper gain staging is critical for audio quality">> ELSE <<>>)
        \o (IF metrics.networkStability < 90
            THEN <<"Dante audio requires dedicated gigabit network infrastructure">>
            ELSE <<>>)
        \o (IF metrics.processingLoad > 85
            THEN <<"High DSP load can cause audio dropouts and latency">> ELSE <<>>)]

----------------------------------------------------------------------------
(* _calculate_severity and the summary of the audio analyzer *)

\* 'moderate' for a network stability below 70 only
calculate_severity_network_70(metrics) ==
    IF metrics.signalQuality < 60 \/ metrics.processingLoad > 95
       \/ metrics.networkStability < 50
    THEN "critical"
    ELSE IF metrics.signalQuality < 80 \/ metrics.processingLoad > 85
            \/ metrics.networkStability < 70
    THEN "moderate"
    ELSE IF metrics.signalQuality < 95 \/ metrics.processingLoad > 75
            \/ metrics.networkStability < 95
    THEN "minor"
    ELSE "optimal"

calculate_severity(metrics) ==
    IF metrics.signalQuality < 60 \/ metrics.processingLoad > 95
       \/ metrics.networkStability < 50
    THEN "critical"
    ELSE IF metrics.signalQuality < 80 \/ metrics.processingLoad > 85
            \/ metrics.networkStability < 80
    THEN "moderate"
    ELSE IF metrics.signalQuality < 95 \/ metrics.processingLoad > 75
            \/ metrics.networkStability < 95
    THEN "minor"
    ELSE "optimal"

\* the text, and the two percentages the text of 'optimal' and 'moderate' prints
atlas_summary(severity, metrics) ==
    CASE severity = "optimal" ->
            [text |-> "Atlas system operating optimally.",
             quality |-> <<metrics.signalQuality>>, load |-> <<metrics.processingLoad>>]
      [] severity = "minor" ->
            [text |-> "Atlas system stable with minor issues. Monitor signal levels and processing load.",
             quality |-> <<>>, load |-> <<>>]
      [] severity = "moderate" ->
            [text |-> "Atlas system requires attention.",
             quality |-> <<metrics.signalQuality>>, load |-> <<metrics.processingLoad>>]
      [] OTHER ->
            [text |-> "CRITICAL: Atlas system issues detected. Immediate attention required.",
             quality |-> <<>>, load |-> <<>>]

----------------------------------------------------------------------------
(* analyze_atlas_data *)

\* datetime.now().isoformat(): the time of the call, which no other field
\* depends on
Now == "now"

atlas_result(severity, audio_issues, recommendations, metrics) ==
    [severity |-> severity,
     category |-> "performance",
     summary |-> atlas_summary(severity, metrics),
     audioPatterns |-> audio_issues,
     hardwareRecommendations |-> recommendations.hardware,
     configurationIssues |-> recommendations.configuration,
     performanceMetrics |-> metrics,
     audioInsights |-> recommendations.insights,
     confidence |-> 85,
     timestamp |-> Now]

\* the classes "except Exception" catches, re.error among them
AtlasExceptionClasses == ExceptionClasses \cup {"error"}

\* except Exception as e: return {...}
atlas_except(e) ==
    IF e.type \in AtlasExceptionClasses
    THEN [ret |-> <<[error |-> [text |-> "Atlas analysis failed: ", e |-> e.text],
                     severity |-> "critical", confidence |-> 0, timestamp |-> Now]>>,
          exc |-> NoExc, caught |-> TRUE]
    ELSE [ret |-> <<>>, exc |-> e, caught |-> FALSE]

atlas_scored(audio_issues, metrics) ==
    [ret |-> <<atlas_result(calculate_severity(metrics), audio_issues,
                            generate_atlas_recommendations(metrics), metrics)>>,
     exc |-> NoExc, caught |-> FALSE]

\* the four analyses in the order of the body, up to the first that raises
atlas_analyses(v, failing) ==
    IF failing # {} THEN atlas_except(v[Min(failing)].exc)
    ELSE atlas_scored(v[1].val,
                      PerformanceMetrics(v[2].val, v[3].val.latency, v[4].val,
                                         v[3].val.stability_score))

atlas_values(self, logs, metrics) ==
    << analyze_audio_patterns(self.audio_patterns, logs),
       IF metrics.kind = "null" THEN Raise(NoAttribute("NoneType", "get"))
       ELSE analyze_signal_levels(metrics.inputLevels, metrics.outputLevels),
       analyze_network_performance(metrics),
       analyze_dsp_performance(metrics) >>

atlas_first_failure(v) == atlas_analyses(v, {i \in 1..4 : ~v[i].ok})

analyze_atlas_data(self, doc) ==
    IF doc.kind # "dict" THEN atlas_except(NoAttribute(KindTypeName(doc.kind), "get"))
    ELSE atlas_first_failure(
             atlas_values(self,
                          IF doc.logs.kind = "absent" THEN Logs("list", <<>>) ELSE doc.logs,
                          doc.metrics))

----------------------------------------------------------------------------
(* main of atlas_analyzer.py *)

\* what a run did: the call it made, the document it printed and the except
\* clause that built it
AtlasRun(call, printed, caught) == [call |-> call, printed |-> printed, caught |-> caught]

atlas_main_except(e, call) ==
    AtlasRun(call,
             <<[error |-> [text |-> "Script execution failed: ", e |-> e.text],
                severity |-> "critical", confidence |-> 0, timestamp |-> Now]>>,
             "main")

atlas_main_print(call) ==
    IF call.exc # NoExc THEN atlas_main_except(call.exc, call)
    ELSE AtlasRun(call, call.ret, IF call.caught THEN "analyze_atlas_data" ELSE "none")

atlas_main(input_data) ==
    IF ~json_loads(input_data).ok
    THEN atlas_main_except(json_loads(input_data).exc, [ret |-> <<>>, exc |-> NoExc, caught |-> FALSE])
    ELSE atlas_main_print(analyze_atlas_data(AtlasAudioAnalyzer, json_loads(input_data).val))

----------------------------------------------------------------------------
(* The inputs of the audio analyzer *)

MaxInputs == 4
MaxOutputs == 3

\* the values of a level mapping with n entries, the lowest level first
Levels(values, n) ==
    {s \in [1..n -> {Number(v) : v \in values}] :
        \A i \in 1..(n - 1) : s[i].n <= s[i + 1].n}

InputLevels == UNION {Levels({-36, -35, -3, -2}, n) : n \in 0..MaxInputs}
OutputLevels == UNION {Levels({-6, -5}, n) : n \in 0..MaxOutputs}

NoLogs == Logs("absent", <<>>)
NoMetrics == Metrics("absent", <<>>, <<>>, NoDuration, NoDuration)

\* documents without log records, the levels, the latency and the load varying
LevelDocuments ==
    {AtlasDocument("dict", NoLogs, Metrics("dict", input_levels, output_levels, latency, load)) :
        input_levels \in InputLevels,
        output_levels \in OutputLevels,
        latency \in {NoDuration, Number(21), Number(51)},
        load \in {NoDuration, Number(76), Number(86), Number(96)}}

AtlasLogs ==
    {NoLogs, Logs("null", <<>>), Logs("str", <<>>), Logs("str", <<NonMapping("str")>>)}
    \cup {Logs("list", items) :
            items \in {<<>>,
                       <<Plain("info")>>,
                       <<[Plain("error") EXCEPT !.message = <<"input", "clipping">>]>>,
                       <<[Plain("info") EXCEPT !.message = <<"scene", "recall">>],
                         [Plain("info") EXCEPT !.message = <<"scene", "recall">>]>>,
                       <<[Plain("info") EXCEPT !.message = <<NULL>>]>>,
                       <<NonMapping("number")>>}}

\* documents with and without log records, the latency and the load on both
\* sides of every threshold
LoadDocuments ==
    {AtlasDocument("dict", logs, Metrics("dict", <<>>, <<>>, latency, load)) :
        logs \in AtlasLogs,
        latency \in {NoDuration, NullDuration, Number(20), Number(21), Number(50), Number(51)},
        load \in {NoDuration, NullDuration, TextDuration,
                  Number(75), Number(76), Number(85), Number(86), Number(95), Number(96)}}

AtlasDocuments ==
    LevelDocuments
    \cup LoadDocuments
    \cup {AtlasDocument(kind, NoLogs, NoMetrics) : kind \in {"list", "null", "number", "str"}}
    \cup {AtlasDocument("dict", logs, Metrics(kind, <<>>, <<>>, NoDuration, NoDuration)) :
            logs \in AtlasLogs, kind \in {"absent", "null"}}
    \cup {AtlasDocument("dict", NoLogs,
                        Metrics("dict", <<level>>, <<Number(-5)>>, NoDuration, NoDuration)) :
            level \in {NullDuration, TextDuration}}

AtlasInputs ==
    {Input("empty", NoDocument), Input("malformed", NoDocument)}
    \cup {Input("json", doc) : doc \in AtlasDocuments}

----------------------------------------------------------------------------
(* The state machine of the audio analyzer *)

AtlasInit == Init

\* a caller invokes analyzer.analyze_atlas_data(doc)
AtlasCall(docs) ==
    /\ pc = "idle"
    /\ pc' = "called"
    /\ \E doc \in docs : data' = <<doc>>
    /\ UNCHANGED <<error_patterns, severity_keywords, stdin, logs_data, evaluated,
                   result, raised, caught_in, stdout, analysis_result>>

\* the state a call of analyze_atlas_data leaves
AtlasReturns(out) ==
    /\ analysis_result' = out.ret
    /\ raised' = out.exc
    /\ caught_in' = IF out.caught THEN "analyze_atlas_data" ELSE "none"

\* the body of analyze_atlas_data
AnalyzeAtlasData ==
    /\ pc = "called"
    /\ AtlasReturns(analyze_atlas_data(AtlasAudioAnalyzer, data[1]))
    /\ pc' = "returned"
    /\ UNCHANGED <<error_patterns, severity_keywords, stdin, logs_data, evaluated,
                   result, stdout, data>>

\* the caller drops the result
AtlasReturn ==
    /\ pc = "returned"
    /\ pc' = "idle"
    /\ data' = <<>>
    /\ analysis_result' = <<>>
    /\ raised' = NoExc
    /\ caught_in' = "none"
    /\ UNCHANGED <<error_patterns, severity_keywords, stdin, logs_data, evaluated,
                   result, stdout>>

\* a process starts and main() reads its standard input
AtlasReadStdin(inputs) ==
    /\ pc = "idle"
    /\ pc' = "read"
    /\ \E input_data \in inputs : stdin' = <<input_data>>
    /\ UNCHANGED <<error_patterns, severity_keywords, logs_data, evaluated, result,
                   raised, caught_in, stdout, data, analysis_result>>

\* the state a run of main() leaves
AtlasPrints(input_data, run) ==
    /\ data' = IF input_data.kind = "json" THEN <<input_data.doc>> ELSE <<>>
    /\ analysis_result' = run.call.ret
    /\ raised' = NoExc
    /\ caught_in' = run.caught
    /\ stdout' = run.printed

\* the rest of main(): parse, analyze, print
AtlasMain ==
    /\ pc = "read"
    /\ AtlasPrints(stdin[1], atlas_main(stdin[1]))
    /\ pc' = "printed"
    /\ UNCHANGED <<error_patterns, severity_keywords, stdin, logs_data, evaluated, result>>

\* the process ends
AtlasExit ==
    /\ pc = "printed"
    /\ pc' = "idle"
    /\ stdin' = <<>>
    /\ stdout' = <<>>
    /\ data' = <<>>
    /\ analysis_result' = <<>>
    /\ raised' = NoExc
    /\ caught_in' = "none"
    /\ UNCHANGED <<error_patterns, severity_keywords, logs_data, evaluated, result>>

AtlasNext ==
    \/ AtlasCall(AtlasDocuments)
    \/ AnalyzeAtlasData
    \/ AtlasReturn
    \/ AtlasReadStdin(AtlasInputs)
    \/ AtlasMain
    \/ AtlasExit

AtlasSpec == AtlasInit /\ [][AtlasNext]_vars

----------------------------------------------------------------------------
(* C20 *)

\* a call of analyze_atlas_data has completed, directly or inside main()
AtlasCompleted == pc \in {"returned", "printed"} /\ data # <<>> /\ analysis_result # <<>>

\* a number or a missing key
IsNumber(value) == value.k \in {"num", "absent"}

\* a document of the shape {processorData, logs, metrics}: the log records
\* mappings whose message is a text or missing, the metrics numbers
WellFormedAtlas(doc) ==
    /\ doc.kind = "dict"
    /\ doc.logs.kind \in {"absent", "list"}
    /\ \A i \in 1..Len(doc.logs.items) :
           /\ doc.logs.items[i].kind = "dict"
           /\ doc.logs.items[i].message \notin {<<NULL>>, <<NUMBER>>}
    /\ doc.metrics.kind \in {"absent", "dict"}
    /\ \A i \in 1..Len(doc.metrics.inputLevels) : doc.metrics.inputLevels[i].k = "num"
    /\ \A i \in 1..Len(doc.metrics.outputLevels) : doc.metrics.outputLevels[i].k = "num"
    /\ IsNumber(doc.metrics.networkLatency)
    /\ IsNumber(doc.metrics.cpuLoad)

\* the breaches of one severity: the bounds of signal quality, processing
\* load and network stability
Breach(scores, quality, load, stability) ==
    \/ scores.signalQuality < quality
    \/ scores.processingLoad > load
    \/ scores.networkStability < stability

WorstBreach(scores) ==
    CASE Breach(scores, 60, 95, 50) -> "critical"
      [] ~Breach(scores, 60, 95, 50) /\ Breach(scores, 80, 85, 80) -> "moderate"
      [] ~Breach(scores, 80, 85, 80) /\ Breach(scores, 95, 75, 95) -> "minor"
      [] OTHER -> "optimal"

HasScores(res) == "performanceMetrics" \in DOMAIN res

\* C20: for every well-formed document, with or without log records, the
\* result carries the three component scores and its severity is their worst
\* breach: critical, else moderate, else minor, else optimal.
C20_SeverityIsWorstBreach ==
    (AtlasCompleted /\ WellFormedAtlas(data[1]))
    => /\ HasScores(analysis_result[1])
       /\ analysis_result[1].severity = WorstBreach(analysis_result[1].performanceMetrics)

----------------------------------------------------------------------------
(* C21 *)

\* a run of main() of the audio analyzer has printed its document
AtlasPrinted == pc = "printed" /\ stdout # <<>>

\* C21: the confidence of every document the audio analyzer writes, normal
\* or failure result, is a number between 0 and 1.
C21_AtlasConfidenceInUnitInterval ==
    AtlasPrinted => (0 <= stdout[1].confidence /\ stdout[1].confidence <= 1)

----------------------------------------------------------------------------
(* C22 *)

\* some record of level 'error' or 'critical' has a message the expression finds
ErrorMessageMatches(items, regex) ==
    \E i \in 1..Len(items) :
        /\ items[i].level \in {"error", "critical"}
        /\ re_search(regex, GetMessage(items[i].message))

IsCategoryLine(line) == line.text = "Detected pattern"

CategoryLine(entry) == Line("Detected pattern", replace_underscore(entry.name), 0)

\* the lines of the categories matched, in the order of the table
CategoryLines(items) ==
    MapSeq(Pick(init_error_patterns,
                {i \in 1..Len(init_error_patterns) :
                    ErrorMessageMatches(items, init_error_patterns[i].regex)}, 1),
           CategoryLine)

\* C22: the 'Detected <category> pattern' lines of the result are, in the
\* order network_timeout, device_failure, authentication, performance,
\* configuration, those of the categories whose expression matches the message
\* of at least one record of level 'error' or 'critical'; a message of a
\* record of another level produces none.
C22_CategoriesOfErrorMessages ==
    (Completed /\ WellFormedBatch(logs_data[1]))
    => /\ Len(result) = 1
       /\ Where(result[1].patterns, IsCategoryLine) = CategoryLines(logs_data[1].logs.items)

----------------------------------------------------------------------------
(* C23 *)

\* C23: in the result of a non-empty batch of log records, severity is
\* 'high' or 'critical' if and only if the recommendations hold 'High error
\* rate detected - investigate system stability', whatever the letter case
\* of the level strings.
C23_SeverityAgreesWithRecommendation ==
    (Completed /\ WellFormedBatch(logs_data[1]) /\ logs_data[1].logs.items # <<>>)
    => /\ Len(result) = 1
       /\ result[1].severity \in {"high", "critical"}
          <=> HasRecommendation(result[1],
                                "High error rate detected - investigate system stability")

----------------------------------------------------------------------------
(* C24 *)

\* C24: the rules yield at most five recommendations, so the cut to five
\* removes none: whenever a record of the batch has category 'security', the
\* recommendations hold 'Security events detected - review access logs'.
C24_SecurityRecommendationKept ==
    (Completed /\ WellFormedBatch(logs_data[1])
        /\ \E i \in 1..Len(logs_data[1].logs.items) : IsSecurity(logs_data[1].logs.items[i]))
    => /\ Len(result) = 1
       /\ HasRecommendation(result[1], "Security events detected - review access logs")

----------------------------------------------------------------------------
(* C25 *)

NonNegative(durations) == \A i \in 1..Len(durations) : durations[i] >= 0

\* C25: for a batch of log records whose durations are all non-negative,
\* the number N of a 'Detected N performance outliers' anomaly is strictly
\* less than one third of the number of records carrying a duration; so
\* fewer than four timed records yield no such anomaly.
C25_OutliersBelowOneThird ==
    (Completed /\ WellFormedBatch(logs_data[1])
        /\ NonNegative(NumericDurations(logs_data[1].logs.items)))
    => /\ Len(result) = 1
       /\ \A i \in 1..Len(result[1].anomalies) :
              IsOutlierLine(result[1].anomalies[i])
              => 3 * result[1].anomalies[i].n
                     < Len(NumericDurations(logs_data[1].logs.items))

----------------------------------------------------------------------------
(* C26 *)

\* every record carries a timestamp that fromisoformat parses
EveryTimestampParses(items) ==
    \A i \in 1..Len(items) : items[i].timestamp.k \in {"naive", "zulu"}

\* C26: for a batch of well-formed log records whose timestamps all parse,
\* with a UTC offset or 'Z', without one, or some of each kind, the result is
\* not the 'Analysis failed' fallback.
C26_ParseableTimestampsNeverFail ==
    (Completed /\ WellFormedBatch(logs_data[1])
        /\ logs_data[1].logs.items # <<>>
        /\ EveryTimestampParses(logs_data[1].logs.items))
    => /\ Len(result) = 1
       /\ result[1].summary.kind # "Analysis failed: "

----------------------------------------------------------------------------
(* C27 *)

\* the names of the patterns whose expression finds some message
MatchedPatterns(items) ==
    {init_audio_patterns[i].name :
        i \in {j \in 1..Len(init_audio_patterns) :
                 \E k \in 1..Len(items) :
                     re_search(init_audio_patterns[j].regex, GetMessage(items[k].message))}}

\* C27: for a well-formed document with at least one log record the result
\* is a normal analysis, with the component scores and a severity computed
\* from them, and audioPatterns holds one entry for each pattern that the
\* message of some record matches.
C27_LogRecordsAnalysed ==
    (AtlasCompleted /\ WellFormedAtlas(data[1]) /\ data[1].logs.items # <<>>)
    => /\ HasScores(analysis_result[1])
       /\ analysis_result[1].severity = calculate_severity(analysis_result[1].performanceMetrics)
       /\ analysis_result[1].audioPatterns = MatchedPatterns(data[1].logs.items)

----------------------------------------------------------------------------
(* C28 *)

\* metrics.get('networkLatency', 0) of a document that was analysed
LatencyOf(doc) ==
    IF doc.metrics.networkLatency.k = "num" THEN doc.metrics.networkLatency.n ELSE 0

\* the result of a call that raised nothing
Successful == AtlasCompleted /\ HasScores(analysis_result[1])

\* signal quality and processing load breach no bound
OnlyNetwork(scores) == scores.signalQuality >= 95 /\ scores.processingLoad <= 75

\* C28: in every successful result networkStability is 50 if and only if
\* networkLatency > 50, 75 if and only if 20 < networkLatency <= 50, and 100
\* otherwise; so it is never below 50, a latency above 20 gives a severity
\* of at least 'moderate', and where signal quality and processing load
\* breach nothing the severity is 'optimal' or 'moderate'.
C28_NetworkStabilitySteps ==
    Successful
    => /\ analysis_result[1].performanceMetrics.networkStability
              = (IF LatencyOf(data[1]) > 50 THEN 50
                 ELSE IF LatencyOf(data[1]) > 20 THEN 75 ELSE 100)
       /\ ~(analysis_result[1].performanceMetrics.networkStability < 50)
       /\ LatencyOf(data[1]) > 20 => analysis_result[1].severity \in {"moderate", "critical"}
       /\ OnlyNetwork(analysis_result[1].performanceMetrics)
          => analysis_result[1].severity
                 = (IF LatencyOf(data[1]) > 20 THEN "moderate" ELSE "optimal")

\* a latency above 50 alone has given stability 50 and severity 'moderate'
C28_HighLatencyAlone ==
    /\ Successful
    /\ LatencyOf(data[1]) > 50
    /\ OnlyNetwork(analysis_result[1].performanceMetrics)
    /\ analysis_result[1].performanceMetrics.networkStability = 50
    /\ analysis_result[1].severity = "moderate"

----------------------------------------------------------------------------
(* C29 *)

\* C29: in every successful result hardwareRecommendations and
\* configurationIssues are both empty if and only if severity is 'optimal'
\* or 'minor', and audioInsights has as many entries as the two together.
C29_RecommendationsAgreeWithSeverity ==
    Successful
    => /\ (analysis_result[1].hardwareRecommendations = <<>>
              /\ analysis_result[1].configurationIssues = <<>>)
          <=> analysis_result[1].severity \in {"optimal", "minor"}
       /\ Len(analysis_result[1].audioInsights)
              = Len(analysis_result[1].hardwareRecommendations)
                + Len(analysis_result[1].configurationIssues)

\* a result with all three recommendations
C29_EveryRecommendation ==
    /\ Successful
    /\ Len(analysis_result[1].hardwareRecommendations) = 1
    /\ Len(analysis_result[1].configurationIssues) = 2
    /\ Len(analysis_result[1].audioInsights) = 3
    /\ analysis_result[1].severity = "critical"

\* ------------------------------------------------------------------
\* C30: the signalQuality score of a successful result of
\* analyze_atlas_data (100 minus 15 for each input level above -3,
\* minus 10 for each input level below -35, minus 20 for each output
\* level above -6) lies between 0 and 100, whatever the input and output
\* levels are.
C30_SignalQualityInRange ==
    Successful
    => /\ 0 <= analysis_result[1].performanceMetrics.signalQuality
       /\ analysis_result[1].performanceMetrics.signalQuality <= 100

============================================================================
